---------------------------- MODULE Spec2Model ----------------------------
(***************************************************************************)
(* JobFit AI (src/main.py): a Streamlit script.  Every user interaction    *)
(* (changing a widget, uploading a file, clicking the button) reruns       *)
(* main() from top to bottom with the current widget values.  The only    *)
(* state that survives a rerun is st.session_state.analysis_history and    *)
(* the widget values themselves.  What one rerun does (the messages it     *)
(* puts on the page, the remote model calls, the reads of the uploaded     *)
(* stream, the download button, the value of `results`) is kept in         *)
(* variables that describe the last rerun.                                 *)
(***************************************************************************)
EXTENDS Naturals, Sequences, FiniteSets

VARIABLES
    session_state,    \* st.session_state: a mapping, key "analysis_history"
    tool_selection,   \* st.radio value
    job_description,  \* st.text_area value
    resume_file,      \* st.file_uploader value: <<>> is None, <<f>> a file
    analyze_button,   \* st.button value of the last rerun
    now,              \* the wall clock read by datetime.now()
    started,          \* the page has been opened (main() has run once)
    screen,           \* last rerun: st.success/info/error/warning, in order
    model_calls,      \* last rerun: remote generate_content calls, in order
    stream_reads,     \* last rerun: reads of the uploaded byte stream
    exceptions,       \* last rerun: exceptions raised, with the catching line
    download,         \* last rerun: data of st.download_button (None if absent)
    results           \* last rerun: value of `results` (None if never bound)

vars == <<session_state, tool_selection, job_description, resume_file,
          analyze_button, now, started, screen, model_calls, stream_reads,
          exceptions, download, results>>

\* Number of reruns of the script in one session.
MaxRuns == 6

-----------------------------------------------------------------------------
(* Python values.  A text is a sequence of one-character strings.          *)

None == [kind |-> "None", val |-> <<>>]
Str(t) == [kind |-> "str", val |-> t]
Dict(items) == [kind |-> "dict", val |-> items]

\* bool(v): None, "" and {} are falsy.
Truthy(v) == v.kind # "None" /\ v.val # <<>>

\* d[key] of a dict value; missing is a KeyError.
HasKey(d, key) == \E i \in 1..Len(d.val) : d.val[i][1] = key
Lookup(d, key) == d.val[CHOOSE i \in 1..Len(d.val) : d.val[i][1] = key][2]

IsPrefix(s, t) == Len(s) <= Len(t) /\ SubSeq(t, 1, Len(s)) = s

TOOL_OPTIONS == <<"Basic Analysis", "Resume Enhancement", "Layout Analysis",
                  "Cover Letter Generator", "LinkedIn Optimization">>
Tools == {TOOL_OPTIONS[i] : i \in 1..Len(TOOL_OPTIONS)}

\* What the user can type, upload, and what the remote model can answer.
JobDescriptions == {<<>>, <<"j", "d">>}
ResumeTexts == {<<>>, <<"c", "v">>}
UploadedFiles == [readable : {TRUE}, text : ResumeTexts]
                   \cup {[readable |-> FALSE, text |-> <<>>]}
Responses == {<<>>, <<"O", "k">>, <<" ", "s", ":", "9", "\n">>}
Replies == [ok : {TRUE}, text : Responses] \cup {[ok |-> FALSE, text |-> <<>>]}
LayoutOutcomes == {"raise", "none", "empty", "partial", "issues", "clean"}


-----------------------------------------------------------------------------
(* The collaborators main.py imports (utils, analysis, cover_letter,       *)
(* linkedin_optimization, layout_analysis).  Each returns what it did:     *)
(* whether it raised, its return value, the remote calls it issued and     *)
(* the reads of the uploaded stream it performed.                          *)

Returned(v, calls, reads) ==
    [raised |-> FALSE, exc |-> "", value |-> v, calls |-> calls, reads |-> reads]
Raised(e, calls, reads) ==
    [raised |-> TRUE, exc |-> e, value |-> None, calls |-> calls, reads |-> reads]

\* One read of the uploaded stream; `before` are the earlier reads of the
\* same rerun, after which the stream is at its end.
ReadStream(by, before) == [by |-> by, exhausted |-> before # <<>>]

\* utils.extract_text_from_pdf: the text of all pages, or a failure.
extract_text_from_pdf(file, before) ==
    LET rd == <<ReadStream("extract_text_from_pdf", before)>>
    IN  IF file.readable THEN Returned(Str(file.text), <<>>, rd)
        ELSE Raised("ExtractionError", <<>>, rd)

\* The dispatcher's parse: section markers split the response into fields,
\* otherwise the raw text goes under a single fallback field.
HasMarkers(text) == \E i \in 1..Len(text) : text[i] = ":"
parse_response(field, text) ==
    IF HasMarkers(text) THEN Dict(<< <<field, text>> >>)
    ELSE Dict(<< <<"raw_text", text>> >>)

\* One single-shot request to the remote model: the prompt embeds the job
\* description and the resume text verbatim; `reply` is what the remote does.
Prompt(task, jd, text, reply) ==
    [task |-> task, job_description |-> jd, resume_text |-> text, reply |-> reply]

get_match_analysis(jd, text, reply) ==
    LET c == <<Prompt("match", jd, text, reply)>>
    IN  IF reply.ok THEN Returned(parse_response("overall_match", reply.text), c, <<>>)
        ELSE Raised("ModelCallError", c, <<>>)

get_resume_enhancement_suggestions(text, reply) ==
    LET c == <<Prompt("enhance", <<>>, text, reply)>>
    IN  IF reply.ok THEN Returned(parse_response("improvement_areas", reply.text), c, <<>>)
        ELSE Raised("ModelCallError", c, <<>>)

generate_linkedin_optimization(text, reply) ==
    LET c == <<Prompt("linkedin", <<>>, text, reply)>>
    IN  IF reply.ok THEN Returned(parse_response("headline", reply.text), c, <<>>)
        ELSE Raised("ModelCallError", c, <<>>)

\* The cover letter is the raw response text.
generate_custom_cover_letter(jd, text, reply) ==
    LET c == <<Prompt("cover_letter", jd, text, reply)>>
    IN  IF reply.ok THEN Returned(Str(reply.text), c, <<>>)
        ELSE Raised("ModelCallError", c, <<>>)

\* layout_analysis.analyze_resume_layout: local, reads the document itself.
\* What it makes of the stream (`outcome`) is the document's business; an
\* unreadable document gives no report.
LayoutReport(issues) ==
    Dict(<< <<"formatting_score", <<"8", "0">> >>, <<"layout_issues", issues>> >>)
analyze_resume_layout(file, before, outcome) ==
    LET rd == <<ReadStream("analyze_resume_layout", before)>>
    IN  CASE outcome = "raise"  -> Raised("ExtractionError", <<>>, rd)
          [] outcome = "none"   -> Returned(None, <<>>, rd)
          [] outcome = "empty"  -> Returned(Dict(<<>>), <<>>, rd)
          [] outcome = "partial" ->
                 Returned(Dict(<< <<"formatting_score", <<"8", "0">> >> >>), <<>>, rd)
          [] outcome = "issues" -> Returned(LayoutReport(<<"fonts">>), <<>>, rd)
          [] OTHER              -> Returned(LayoutReport(<<>>), <<>>, rd)
LayoutOutcomesOf(file) ==
    IF file.readable THEN LayoutOutcomes ELSE {"raise", "none"}

-----------------------------------------------------------------------------
(* src/main.py                                                             *)

Msg(level, line) == [level |-> level, line |-> line]
Exc(type, line) == [type |-> type, caught |-> line]

\* What a piece of main() did: the messages it showed, the remote calls and
\* stream reads it caused, the download it offered, and how it ended.
Did(raised, exc, value, scr, calls, reads, dl) ==
    [raised |-> raised, exc |-> exc, value |-> value, screen |-> scr,
     calls |-> calls, reads |-> reads, download |-> dl, caught |-> <<>>]

\* `resume_text` is a local of main(): bound only when extraction succeeded.
Unbound == [bound |-> FALSE, value |-> None]
Bound(v) == [bound |-> TRUE, value |-> v]

\* A slip: the history is reset on every rerun.
init_session_state_reset(ss) ==
    [k \in DOMAIN ss \cup {"analysis_history"} |->
        IF k = "analysis_history" THEN <<>> ELSE ss[k]]

\* Lines 65-67.
init_session_state(ss) ==
    IF "analysis_history" \notin DOMAIN ss
    THEN [k \in DOMAIN ss \cup {"analysis_history"} |->
             IF k = "analysis_history" THEN <<>> ELSE ss[k]]
    ELSE ss

\* Lines 255-261: the upload column.
upload_section(file) ==
    IF file = <<>>
    THEN [resume_text |-> Unbound, screen |-> <<>>, reads |-> <<>>, exceptions |-> <<>>]
    ELSE LET x == extract_text_from_pdf(file[1], <<>>)
         IN  IF x.raised
             THEN [resume_text |-> Unbound,
                   screen |-> <<Msg("success", 256), Msg("error", 261)>>,
                   reads |-> x.reads,
                   exceptions |-> <<Exc(x.exc, 260)>>]
             ELSE [resume_text |-> Bound(x.value),
                   screen |-> <<Msg("success", 256), Msg("info", 259)>>,
                   reads |-> x.reads,
                   exceptions |-> <<>>]

\* Reading the closure variable resume_text while it is unbound raises
\* NameError, before the call whose argument it is.
NameError == Did(TRUE, "NameError", None, <<>>, <<>>, <<>>, None)
OfHelper(h, scr, dl) == Did(h.raised, h.exc, h.value, scr, h.calls, h.reads, dl)

\* A slip: the job description is not checked before the call.
basic_analysis_unchecked(jd, resume_text, reply) ==
    IF resume_text.bound
    THEN OfHelper(get_match_analysis(jd, resume_text.value.val, reply), <<>>, None)
    ELSE NameError

\* Lines 281-292.
basic_analysis(jd, resume_text, reply) ==
    IF jd # <<>>
    THEN IF resume_text.bound
         THEN OfHelper(get_match_analysis(jd, resume_text.value.val, reply), <<>>, None)
         ELSE NameError
    ELSE Did(FALSE, "", None, <<Msg("warning", 292)>>, <<>>, <<>>, None)

\* A slip: a failed call is issued a second time.
resume_enhancement_retry(resume_text, reply) ==
    IF resume_text.bound
    THEN LET h == get_resume_enhancement_suggestions(resume_text.value.val, reply)
         IN  IF h.raised
             THEN OfHelper([h EXCEPT !.calls = h.calls \o h.calls], <<>>, None)
             ELSE OfHelper(h, <<>>, None)
    ELSE NameError

\* Lines 294-302.
resume_enhancement(resume_text, reply) ==
    IF resume_text.bound
    THEN OfHelper(get_resume_enhancement_suggestions(resume_text.value.val, reply),
                  <<>>, None)
    ELSE NameError

\* Lines 304-325.  `before` are the reads of the stream earlier in the rerun.
layout_analysis_tool(file, before, outcome) ==
    LET h == analyze_resume_layout(file[1], before, outcome)
    IN  IF h.raised THEN OfHelper(h, <<>>, None)
        ELSE IF Truthy(h.value)
        THEN IF ~HasKey(h.value, "formatting_score") \/ ~HasKey(h.value, "layout_issues")
             THEN Did(TRUE, "KeyError", None, <<>>, h.calls, h.reads, None)
             ELSE IF Lookup(h.value, "layout_issues") # <<>>
                  THEN OfHelper(h, <<Msg("warning", 320)>>, None)
                  ELSE OfHelper(h, <<Msg("success", 324)>>, None)
        ELSE Did(FALSE, "", None, <<>>, h.calls, h.reads, None)

\* str.strip(): leading and trailing whitespace removed.
IsSpace(c) == c \in {" ", "\n", "\t"}
RECURSIVE LStrip(_)
LStrip(t) == IF t # <<>> /\ IsSpace(Head(t)) THEN LStrip(Tail(t)) ELSE t
RECURSIVE RStrip(_)
RStrip(t) == IF t # <<>> /\ IsSpace(t[Len(t)])
             THEN RStrip(SubSeq(t, 1, Len(t) - 1)) ELSE t
Strip(t) == RStrip(LStrip(t))

\* A slip: the download offers the letter stripped of surrounding whitespace.
cover_letter_generator_stripped(jd, resume_text, reply) ==
    IF jd # <<>>
    THEN IF resume_text.bound
         THEN LET h == generate_custom_cover_letter(jd, resume_text.value.val, reply)
              IN  IF ~h.raised /\ Truthy(h.value)
                  THEN OfHelper(h, <<>>, Str(Strip(h.value.val)))
                  ELSE OfHelper(h, <<>>, None)
         ELSE NameError
    ELSE Did(FALSE, "", None, <<Msg("warning", 348)>>, <<>>, <<>>, None)

\* Lines 327-348.
cover_letter_generator(jd, resume_text, reply) ==
    IF jd # <<>>
    THEN IF resume_text.bound
         THEN LET h == generate_custom_cover_letter(jd, resume_text.value.val, reply)
              IN  IF ~h.raised /\ Truthy(h.value)
                  THEN OfHelper(h, <<>>, h.value)
                  ELSE OfHelper(h, <<>>, None)
         ELSE NameError
    ELSE Did(FALSE, "", None, <<Msg("warning", 348)>>, <<>>, <<>>, None)

\* Lines 350-361.
linkedin_optimization(resume_text, reply) ==
    IF resume_text.bound
    THEN OfHelper(generate_linkedin_optimization(resume_text.value.val, reply),
                  <<>>, None)
    ELSE NameError

\* A slip: the layout tool falls into the enhancement branch.
perform_analysis_misrouted(tool, jd, resume_text, file, before, reply, outcome) ==
    CASE tool = "Basic Analysis"         -> basic_analysis(jd, resume_text, reply)
      [] tool = "Resume Enhancement"     -> resume_enhancement(resume_text, reply)
      [] tool = "Layout Analysis"        -> resume_enhancement(resume_text, reply)
      [] tool = "Cover Letter Generator" -> cover_letter_generator(jd, resume_text, reply)
      [] tool = "LinkedIn Optimization"  -> linkedin_optimization(resume_text, reply)

\* Lines 280-361: the dispatch on the selected tool.
perform_analysis(tool, jd, resume_text, file, before, reply, outcome) ==
    CASE tool = "Basic Analysis"         -> basic_analysis(jd, resume_text, reply)
      [] tool = "Resume Enhancement"     -> resume_enhancement(resume_text, reply)
      [] tool = "Layout Analysis"        -> layout_analysis_tool(file, before, outcome)
      [] tool = "Cover Letter Generator" -> cover_letter_generator(jd, resume_text, reply)
      [] tool = "LinkedIn Optimization"  -> linkedin_optimization(resume_text, reply)

\* A slip: the wrapper returns the error text instead of None.
safe_analysis_returns_error(d) ==
    IF d.raised
    THEN [d EXCEPT !.raised = FALSE,
                   !.value = Str(<<"e", "r", "r">>),
                   !.screen = Append(d.screen, Msg("error", 41)),
                   !.caught = <<Exc(d.exc, 40)>>]
    ELSE d

\* Lines 36-43: the wrapper turns an exception into st.error and None.
safe_analysis(d) ==
    IF d.raised
    THEN [d EXCEPT !.raised = FALSE,
                   !.value = None,
                   !.screen = Append(d.screen, Msg("error", 41)),
                   !.caught = <<Exc(d.exc, 40)>>]
    ELSE d

\* A slip: the entry is appended whatever the result is.
record_results_always(ss, res, tool, clock) ==
    [ss EXCEPT !["analysis_history"] =
        Append(@, [timestamp |-> clock, type |-> tool, results |-> res])]

\* Lines 364-369.
record_results(ss, res, tool, clock) ==
    IF Truthy(res)
    THEN [ss EXCEPT !["analysis_history"] =
             Append(@, [timestamp |-> clock, type |-> tool, results |-> res])]
    ELSE ss

\* Lines 69-376: one rerun of the script with the widgets' values.  `reply`
\* is what the remote model does if asked, `outcome` what the layout scan
\* makes of the document.  show_analysis_progress only draws a progress bar.
main(ss, tool, jd, file, button, clock, reply, outcome) ==
    LET ss1 == init_session_state(ss)
        up == upload_section(file)
    IN  IF button /\ file # <<>>
        THEN LET d == safe_analysis(
                         perform_analysis(tool, jd, up.resume_text, file,
                                          up.reads, reply, outcome))
             IN  [session_state |-> record_results(ss1, d.value, tool, clock),
                  screen |-> up.screen \o d.screen,
                  model_calls |-> d.calls,
                  stream_reads |-> up.reads \o d.reads,
                  exceptions |-> up.exceptions \o d.caught,
                  download |-> d.download,
                  results |-> d.value]
        ELSE [session_state |-> ss1,
              screen |-> IF button THEN Append(up.screen, Msg("warning", 376))
                         ELSE up.screen,
              model_calls |-> <<>>,
              stream_reads |-> up.reads,
              exceptions |-> up.exceptions,
              download |-> None,
              results |-> None]

-----------------------------------------------------------------------------
(* The session: the page is opened, then every interaction reruns main().  *)

Init ==
    /\ session_state = <<>>
    /\ tool_selection = TOOL_OPTIONS[1]
    /\ job_description = <<>>
    /\ resume_file = <<>>
    /\ analyze_button = FALSE
    /\ now = 0
    /\ started = FALSE
    /\ screen = <<>>
    /\ model_calls = <<>>
    /\ stream_reads = <<>>
    /\ exceptions = <<>>
    /\ download = None
    /\ results = None

Rerun(tool, jd, file, button) ==
    /\ now < MaxRuns
    /\ \E reply \in Replies :
       \E outcome \in (IF file = <<>> THEN {"none"} ELSE LayoutOutcomesOf(file[1])) :
          LET m == main(session_state, tool, jd, file, button, now, reply, outcome)
          IN  /\ session_state' = m.session_state
              /\ screen' = m.screen
              /\ model_calls' = m.model_calls
              /\ stream_reads' = m.stream_reads
              /\ exceptions' = m.exceptions
              /\ download' = m.download
              /\ results' = m.results
    /\ tool_selection' = tool
    /\ job_description' = jd
    /\ resume_file' = file
    /\ analyze_button' = button
    /\ now' = now + 1
    /\ started' = TRUE

OpenPage ==
    /\ ~started
    /\ Rerun(tool_selection, job_description, resume_file, FALSE)

SelectTool ==
    /\ started
    /\ \E t \in Tools \ {tool_selection} :
          Rerun(t, job_description, resume_file, FALSE)

EditJobDescription ==
    /\ started
    /\ \E jd \in JobDescriptions \ {job_description} :
          Rerun(tool_selection, jd, resume_file, FALSE)

UploadResume ==
    /\ started
    /\ \E f \in UploadedFiles :
          /\ resume_file # <<f>>
          /\ Rerun(tool_selection, job_description, <<f>>, FALSE)

RemoveResume ==
    /\ started
    /\ resume_file # <<>>
    /\ Rerun(tool_selection, job_description, <<>>, FALSE)

ClickAnalyze ==
    /\ started
    /\ Rerun(tool_selection, job_description, resume_file, TRUE)

Next ==
    \/ OpenPage
    \/ SelectTool
    \/ EditJobDescription
    \/ UploadResume
    \/ RemoveResume
    \/ ClickAnalyze

Spec == Init /\ [][Next]_vars

\* The analysis history, empty while the key is absent.
History == IF "analysis_history" \in DOMAIN session_state
           THEN session_state["analysis_history"] ELSE <<>>

TypeOK ==
    /\ tool_selection \in Tools
    /\ job_description \in JobDescriptions
    /\ Len(resume_file) <= 1
    /\ now \in 0..MaxRuns
    /\ Len(History) <= now

-----------------------------------------------------------------------------
(* Properties.  `Analyzed` says the last rerun was an analyze action with  *)
(* an uploaded resume, i.e. perform_analysis ran in it.                    *)

Analyzed == analyze_button /\ resume_file # <<>>
Shown(level) == {i \in 1..Len(screen) : screen[i].level = level}
CaughtAt(line) == {i \in 1..Len(exceptions) : exceptions[i].caught = line}
FailedCalls == {i \in 1..Len(model_calls) : ~model_calls[i].reply.ok}
NeedsJobDescription == {"Basic Analysis", "Cover Letter Generator"}

\* C1: an analyze action in Basic Analysis or Cover Letter mode with an
\* empty job description is rejected with a warning, yields no result, and
\* issues no remote model call.
C1_NoCallWithoutJobDescription ==
    (Analyzed /\ tool_selection \in NeedsJobDescription /\ job_description = <<>>)
        => /\ model_calls = <<>>
           /\ results = None
           /\ download = None
           /\ \E i \in Shown("warning") : screen[i].line \in {292, 348}

\* C1's case: the rejected action had a readable resume with text, so only
\* the missing job description stood between it and the call.
C1_Witness ==
    /\ Analyzed /\ tool_selection = "Basic Analysis" /\ job_description = <<>>
    /\ resume_file[1].readable /\ resume_file[1].text # <<>>
    /\ Shown("warning") # {}

\* C2: when a remote call fails or any step of the analysis raises, the
\* rerun shows the error and leaves the history as it was.
C2_ExceptionLeavesHistory ==
    [][(analyze_button' /\ (FailedCalls' # {} \/ CaughtAt(40)' # {}))
          => /\ History' = History
             /\ \E i \in Shown("error")' : screen'[i].line = 41
             /\ results' = None]_vars

\* C2's case: a remote call failed in a session that already has history.
C2_Witness ==
    /\ Analyzed /\ FailedCalls # {} /\ History # <<>>
    /\ \E i \in 1..Len(exceptions) : exceptions[i].type = "ModelCallError"

C4_StreamReadOnce ==
    /\ Len(stream_reads) <= 1
    /\ \A i \in 1..Len(stream_reads) : ~stream_reads[i].exhausted

\* C5: a rerun in which something failed shows exactly one error message
\* and yields no result.
C5_OneErrorPerFailure ==
    exceptions # <<>> => (Cardinality(Shown("error")) = 1 /\ results = None)

\* C6: one analyze action issues at most one remote model call, so a failed
\* call is never followed by another call in the same action.
C6_AtMostOneCall ==
    /\ Len(model_calls) <= 1
    /\ \A i \in FailedCalls : i = Len(model_calls)

\* C6's case: the remote call of the action failed.
C6_Witness == Analyzed /\ FailedCalls # {} /\ CaughtAt(40) # {}

\* C7: in Cover Letter mode with a non-empty response, the download's data
\* and the recorded result are exactly the text the remote model returned.
C7_CoverLetterVerbatim ==
    (Analyzed /\ tool_selection = "Cover Letter Generator")
        => \A i \in 1..Len(model_calls) :
              (model_calls[i].reply.ok /\ model_calls[i].reply.text # <<>>)
                 => /\ download = Str(model_calls[i].reply.text)
                    /\ results = Str(model_calls[i].reply.text)
                    /\ History # <<>>
                    /\ History[Len(History)].results = Str(model_calls[i].reply.text)

\* C7's case: a cover letter with surrounding whitespace was generated.
C7_Witness ==
    /\ Analyzed /\ tool_selection = "Cover Letter Generator"
    /\ model_calls # <<>> /\ model_calls[1].reply.ok
    /\ model_calls[1].reply.text # Strip(model_calls[1].reply.text)
    /\ download # None

\* C8: the history is append-only: every rerun keeps the existing entries
\* as a prefix, and the key, once present, stays.
C8_HistoryAppendOnly ==
    [][/\ IsPrefix(History, History')
       /\ ("analysis_history" \in DOMAIN session_state
              => "analysis_history" \in DOMAIN session_state')]_vars

\* C8's case: a history of two entries survived a later rerun that added
\* nothing.
C8_Witness == Len(History) >= 2 /\ ~Analyzed /\ now > History[Len(History)].timestamp + 1

\* C9: an analyze action in Layout Analysis mode issues no remote model
\* call and runs the layout scan whatever the job description is.
C9_LayoutIsLocal ==
    (Analyzed /\ tool_selection = "Layout Analysis")
        => /\ model_calls = <<>>
           /\ Shown("warning") \subseteq {i \in 1..Len(screen) : screen[i].line = 320}
           /\ \E i \in 1..Len(stream_reads) : stream_reads[i].by = "analyze_resume_layout"

\* C9's case: a layout report was produced with no job description.
C9_Witness ==
    /\ Analyzed /\ tool_selection = "Layout Analysis" /\ job_description = <<>>
    /\ Truthy(results) /\ resume_file[1].text # <<>>

\* C10: a rerun appends exactly one entry, tagged with the selected mode and
\* holding the result, when the analysis returned a truthy result; with no
\* button, no resume, a validation warning, a caught exception or a falsy
\* result it appends nothing.
C10_AppendIffResult ==
    [][/\ IF Truthy(results')
          THEN History' = Append(History, [timestamp |-> now,
                                           type |-> tool_selection',
                                           results |-> results'])
          ELSE History' = History
       /\ Truthy(results') => (Analyzed' /\ CaughtAt(40)' = {} /\ FailedCalls' = {})
       /\ (\/ ~analyze_button' \/ resume_file' = <<>> \/ CaughtAt(40)' # {}
           \/ \E i \in Shown("warning")' : screen'[i].line \in {292, 348, 376})
             => History' = History]_vars

\* C10's case: the last action appended its entry to a non-empty history.
C10_Witness ==
    /\ Analyzed /\ Truthy(results) /\ Len(History) >= 2
    /\ History[Len(History)].type = tool_selection
    /\ History[Len(History)].results = results

=============================================================================
